---- MODULE Spec2Model ----
(***************************************************************************)
(* headcoin: a proof-of-work ledger (blockchain_core.py) and the UDP node  *)
(* built on it (node.py).                                                  *)
(*                                                                         *)
(* Representation.                                                         *)
(*  - A Python dict is a record; a missing key is a field outside DOMAIN.  *)
(*  - The mempool (a dict, which keeps insertion order) is a sequence of   *)
(*    [key, tx] entries with distinct keys.                                *)
(*  - A JSON amount is [kind, val]: kind "num" a JSON number val, "numstr" *)
(*    a string that float() parses to val, "text" a string float() cannot  *)
(*    parse, "null" a JSON null; "nan", "inf", "-inf" a JSON NaN,          *)
(*    Infinity, -Infinity or a string float() reads as one of them.        *)
(*  - A float is [cls, val]: cls "finite" with the number val, or "nan",   *)
(*    "inf", "-inf".                                                       *)
(*  - A SHA-256 hex digest is the tuple <<prefix>> \o <<the hashed         *)
(*    fields>>: two blocks have the same digest iff they are value-equal   *)
(*    (no collisions), and prefix, a fixed function of the block ranging   *)
(*    over PrefixSpace values (65536 in the program), is 0 iff the hex     *)
(*    digest starts with "0000".  The string "0" is the tuple <<-1>>.      *)
(*                                                                         *)
(* Specifications.                                                         *)
(*  - Spec: one node, its listener handlers and prompt commands atomic.    *)
(*  - SpecLedger, SpecPool, SpecValid, SpecOffer: direct calls of the      *)
(*    Blockchain methods.                                                  *)
(*  - SpecListen: the listener fed raw datagrams, well-formed or not.      *)
(*  - SpecRace: MINE statement by statement beside the listener thread.    *)
(*  - SpecSync, SpecFlood: a network of nodes with datagrams in flight,    *)
(*    delivered under weak fairness.                                       *)
(***************************************************************************)
EXTENDS Integers, Sequences, FiniteSets, Bags, TLC

VARIABLES
    chain,        \* Blockchain.chain of the node
    mempool,      \* Blockchain.mempool of the node
    peers,        \* Node.peers
    seen_tx_ids,  \* Node.seen_tx_ids
    sent,         \* the datagrams the node sent in its last step, in order
    last,         \* the last call or handler: its name, inputs and result
    peerChain,    \* the chain of a remote peer running the same Blockchain
    mines,        \* history: mine_block calls so far, -1 once any other call ran
    inserted,     \* history: tx_id -> deliveries that inserted it in the mempool
    forwarded,    \* history: tx_id -> deliveries that made the node forward it
    listening,    \* whether the listener thread is still running
    mining,       \* the locals of a mine_block call in progress on the prompt
                  \* thread, and the statement it has reached
    nodes,        \* a network of nodes: address -> that node's chain, mempool,
                  \* peers and seen_tx_ids
    net,          \* the datagrams in flight between them, a bag
    commands,     \* the number of commands typed at the prompts of the network
    relayed       \* history: address -> broadcasts of the flooded transaction

vars == <<chain, mempool, peers, seen_tx_ids, sent, last, peerChain, mines,
          inserted, forwarded, listening, mining, nodes, net, commands, relayed>>

netVars == <<nodes, net, commands, relayed>>

\* the variables the calls of the Blockchain methods and the handlers of the
\* single node leave alone
auxVars == <<listening, mining, netVars>>

-----------------------------------------------------------------------------
(* Bounds of the model *)

MaxChain == 3

\* the blocks mined in a network before mining stops
MaxMines == 2
PrefixSpace == 2

-----------------------------------------------------------------------------
(* Values *)

BLOCK_REWARD == 50

None == "<None>"

Num(n) == [kind |-> "num", val |-> n]

ZeroString == <<-1>>

GENESIS ==
    [index |-> 1, timestamp |-> 0, nonce |-> 1, previous_hash |-> ZeroString,
     transactions |-> <<>>]

\* dict.get(key): the value, or None when the key is missing
Get(d, k) == IF k \in DOMAIN d THEN d[k] ELSE None

\* Python truthiness of a str-or-None value
Truthy(v) == v # None /\ v # ""

\* f"coinbase-{n}"
CoinbaseId(n) ==
    <<"coinbase-1", "coinbase-2", "coinbase-3", "coinbase-4", "coinbase-5",
      "coinbase-6", "coinbase-7", "coinbase-8", "coinbase-9">>[n]

-----------------------------------------------------------------------------
(* The mempool dict *)

mp_has(mp, k) == \E i \in DOMAIN mp : mp[i].key = k

mp_get(mp, k) == mp[CHOOSE i \in DOMAIN mp : mp[i].key = k].tx

mp_set(mp, k, v) ==
    IF mp_has(mp, k)
    THEN [i \in DOMAIN mp |-> IF mp[i].key = k THEN [key |-> k, tx |-> v] ELSE mp[i]]
    ELSE Append(mp, [key |-> k, tx |-> v])

mp_pop(mp, k) == SelectSeq(mp, LAMBDA e : e.key # k)

mp_values(mp) == [i \in DOMAIN mp |-> mp[i].tx]

mp_keys(mp) == {mp[i].key : i \in DOMAIN mp}

-----------------------------------------------------------------------------
(* Hashing and proof of work *)

Prefix(block) ==
    (block.nonce + block.index + block.timestamp + Len(block.transactions)
     + Len(block.previous_hash)) % PrefixSpace

hash_dict(obj) ==
    <<Prefix(obj), obj.index, obj.timestamp, obj.nonce, obj.previous_hash,
      obj.transactions>>

hash_block(block) == hash_dict(block)

\* digest.startswith("0000")
StartsWith0000(digest) == digest[1] = 0

build_block(ch, nonce, previous_hash, txs, now) ==
    [index |-> Len(ch) + 1, timestamp |-> now, nonce |-> nonce,
     previous_hash |-> previous_hash, transactions |-> txs]

get_latest_block(ch) == ch[Len(ch)]

\* while not hash_block(block).startswith("0000"): block["nonce"] += 1
RECURSIVE NonceSearch(_)
NonceSearch(block) ==
    IF StartsWith0000(hash_block(block))
    THEN block
    ELSE NonceSearch([block EXCEPT !.nonce = @ + 1])

-----------------------------------------------------------------------------
(* Blockchain *)

RECURSIVE remove_confirmed_loop(_, _, _)
remove_confirmed_loop(mp, confirmed_txs, i) ==
    IF i > Len(confirmed_txs)
    THEN mp
    ELSE remove_confirmed_loop(
             IF confirmed_txs[i].type = "regular"
             THEN mp_pop(mp, confirmed_txs[i].tx_id)
             ELSE mp,
             confirmed_txs, i + 1)

\* faulty variant: every pending entry is dropped
_remove_confirmed_dropping_all(mp, confirmed_txs) == <<>>

_remove_confirmed_from_mempool(mp, confirmed_txs) ==
    remove_confirmed_loop(mp, confirmed_txs, 1)

coinbase_tx(ch, miner_address) ==
    [tx_id |-> CoinbaseId(Len(ch) + 1), sender |-> "COINBASE",
     receiver |-> miner_address, amount |-> Num(BLOCK_REWARD), type |-> "coinbase"]

\* faulty variant: the block is appended as built, the nonce search skipped
mine_block_without_search(ch, mp, miner_address, now) ==
    LET prev_hash == hash_block(get_latest_block(ch))
        txs == <<coinbase_tx(ch, miner_address)>> \o mp_values(mp)
        block == build_block(ch, 1, prev_hash, txs, now)
    IN  [chain |-> Append(ch, block),
         mempool |-> _remove_confirmed_from_mempool(mp, block.transactions),
         block |-> block]

\* the result: the new chain, the new mempool, the block returned
mine_block(ch, mp, miner_address, now) ==
    LET prev_hash == hash_block(get_latest_block(ch))
        txs == <<coinbase_tx(ch, miner_address)>> \o mp_values(mp)
        block == NonceSearch(build_block(ch, 1, prev_hash, txs, now))
    IN  [chain |-> Append(ch, block),
         mempool |-> _remove_confirmed_from_mempool(mp, block.transactions),
         block |-> block]

chain_links_ok(c) ==
    \A i \in 2..Len(c) :
        /\ StartsWith0000(hash_dict(c[i]))
        /\ c[i].previous_hash = hash_dict(c[i - 1])

\* chain = chain or self.chain: an empty list is falsy
is_chain_valid(self_chain, given) ==
    LET c == IF given = <<>> THEN self_chain ELSE given
    IN  IF c = <<>> \/ c[1] # GENESIS
        THEN FALSE
        ELSE chain_links_ok(c)

\* faulty variant: the proof of work of the received block is not checked
validate_and_add_block_without_pow(ch, mp, block) ==
    IF block.previous_hash # hash_block(get_latest_block(ch))
    THEN [chain |-> ch, mempool |-> mp, ret |-> FALSE]
    ELSE [chain |-> Append(ch, block),
          mempool |-> _remove_confirmed_from_mempool(mp, block.transactions),
          ret |-> TRUE]

\* the result: the new chain, the new mempool, the boolean returned
validate_and_add_block(ch, mp, block) ==
    LET last_block == get_latest_block(ch)
    IN  IF \/ ~StartsWith0000(hash_block(block))
           \/ block.previous_hash # hash_block(last_block)
        THEN [chain |-> ch, mempool |-> mp, ret |-> FALSE]
        ELSE [chain |-> Append(ch, block),
              mempool |-> _remove_confirmed_from_mempool(mp, block.transactions),
              ret |-> TRUE]

\* {tx["tx_id"] for blk in chain for tx in blk["transactions"] if tx["type"] == "regular"}
confirmed_ids(ch) ==
    UNION {{ch[i].transactions[j].tx_id :
               j \in {k \in DOMAIN ch[i].transactions :
                          ch[i].transactions[k].type = "regular"}} :
           i \in DOMAIN ch}

\* faulty variant: < for <=, so a valid chain of equal length is adopted
replace_chain_adopting_ties(ch, mp, new_chain) ==
    IF ~is_chain_valid(ch, new_chain) \/ Len(new_chain) < Len(ch)
    THEN [chain |-> ch, mempool |-> mp, ret |-> FALSE]
    ELSE [chain |-> new_chain,
          mempool |-> SelectSeq(mp, LAMBDA e : e.key \notin confirmed_ids(new_chain)),
          ret |-> TRUE]

\* faulty variant: any valid chain is adopted, whatever its length
replace_chain_of_any_length(ch, mp, new_chain) ==
    IF ~is_chain_valid(ch, new_chain)
    THEN [chain |-> ch, mempool |-> mp, ret |-> FALSE]
    ELSE [chain |-> new_chain,
          mempool |-> SelectSeq(mp, LAMBDA e : e.key \notin confirmed_ids(new_chain)),
          ret |-> TRUE]

\* faulty variant: the pending transactions are dropped on adoption
replace_chain_clearing_mempool(ch, mp, new_chain) ==
    IF ~is_chain_valid(ch, new_chain) \/ Len(new_chain) <= Len(ch)
    THEN [chain |-> ch, mempool |-> mp, ret |-> FALSE]
    ELSE [chain |-> new_chain, mempool |-> <<>>, ret |-> TRUE]

\* the result: the new chain, the new mempool, the boolean returned
replace_chain(ch, mp, new_chain) ==
    IF ~is_chain_valid(ch, new_chain) \/ Len(new_chain) <= Len(ch)
    THEN [chain |-> ch, mempool |-> mp, ret |-> FALSE]
    ELSE [chain |-> new_chain,
          mempool |-> SelectSeq(mp, LAMBDA e : e.key \notin confirmed_ids(new_chain)),
          ret |-> TRUE]

\* float(tx["amount"]): raises on a missing key, a null, an unparseable string
float_raises(tx) ==
    \/ "amount" \notin DOMAIN tx
    \/ tx.amount.kind \in {"text", "null"}

NonFinite == {"nan", "inf", "-inf"}

\* the float that float(tx["amount"]) returns
float_of(tx) ==
    IF tx.amount.kind \in NonFinite
    THEN [cls |-> tx.amount.kind, val |-> 0]
    ELSE [cls |-> "finite", val |-> tx.amount.val]

\* amt <= 0 as IEEE 754 orders floats: no comparison with nan is true
float_le_zero(amt) ==
    IF amt.cls = "nan" THEN FALSE
    ELSE IF amt.cls = "inf" THEN FALSE
    ELSE IF amt.cls = "-inf" THEN TRUE
    ELSE amt.val <= 0

\* faulty variant: no check for a pending duplicate, the entry is overwritten
add_transaction_overwriting(mp, tx) ==
    IF float_raises(tx) THEN [mempool |-> mp, added |-> FALSE, tx |-> tx]
    ELSE IF float_le_zero(float_of(tx)) THEN [mempool |-> mp, added |-> FALSE, tx |-> tx]
    ELSE IF ~Truthy(Get(tx, "sender")) \/ ~Truthy(Get(tx, "receiver"))
            \/ ~Truthy(Get(tx, "tx_id"))
         THEN [mempool |-> mp, added |-> FALSE, tx |-> tx]
    ELSE IF Get(tx, "type") \notin {"regular", "coinbase"}
         THEN [mempool |-> mp, added |-> FALSE, tx |-> tx]
    ELSE IF tx.type = "coinbase" THEN [mempool |-> mp, added |-> FALSE, tx |-> tx]
    ELSE [mempool |-> mp_set(mp, tx.tx_id, tx), added |-> TRUE, tx |-> tx]

\* faulty variant: a coinbase submission is not rejected
add_transaction_accepting_coinbase(mp, tx) ==
    IF float_raises(tx) THEN [mempool |-> mp, added |-> FALSE, tx |-> tx]
    ELSE IF float_le_zero(float_of(tx)) THEN [mempool |-> mp, added |-> FALSE, tx |-> tx]
    ELSE IF ~Truthy(Get(tx, "sender")) \/ ~Truthy(Get(tx, "receiver"))
            \/ ~Truthy(Get(tx, "tx_id"))
         THEN [mempool |-> mp, added |-> FALSE, tx |-> tx]
    ELSE IF Get(tx, "type") \notin {"regular", "coinbase"}
         THEN [mempool |-> mp, added |-> FALSE, tx |-> tx]
    ELSE IF mp_has(mp, tx.tx_id)
         THEN [mempool |-> mp, added |-> FALSE, tx |-> mp_get(mp, tx.tx_id)]
    ELSE [mempool |-> mp_set(mp, tx.tx_id, tx), added |-> TRUE, tx |-> tx]

\* the result: the new mempool, added, the transaction returned
add_transaction(mp, tx) ==
    IF float_raises(tx) THEN [mempool |-> mp, added |-> FALSE, tx |-> tx]
    ELSE IF float_le_zero(float_of(tx)) THEN [mempool |-> mp, added |-> FALSE, tx |-> tx]
    ELSE IF ~Truthy(Get(tx, "sender")) \/ ~Truthy(Get(tx, "receiver"))
            \/ ~Truthy(Get(tx, "tx_id"))
         THEN [mempool |-> mp, added |-> FALSE, tx |-> tx]
    ELSE IF Get(tx, "type") \notin {"regular", "coinbase"}
         THEN [mempool |-> mp, added |-> FALSE, tx |-> tx]
    ELSE IF mp_has(mp, tx.tx_id)
         THEN [mempool |-> mp, added |-> FALSE, tx |-> mp_get(mp, tx.tx_id)]
    ELSE IF tx.type = "coinbase" THEN [mempool |-> mp, added |-> FALSE, tx |-> tx]
    ELSE [mempool |-> mp_set(mp, tx.tx_id, tx), added |-> TRUE, tx |-> tx]

-----------------------------------------------------------------------------
(* Node: sending *)

SELF_PORT == 7000

SelfAddr == <<"127.0.0.1", SELF_PORT>>

\* except_peer=None
NoPeer == <<"", 0>>

\* payload.get("ttl", 4), and the ttl of a local submission
DEFAULT_TTL == 4

\* _send(msg, peer)
_send(msg, peer) == <<[to |-> peer, msg |-> msg]>>

\* _broadcast(msg, except_peer): one datagram per entry of self.peers, in order
RECURSIVE broadcast_loop(_, _, _, _)
broadcast_loop(prs, msg, except_peer, i) ==
    IF i > Len(prs)
    THEN <<>>
    ELSE (IF except_peer # NoPeer /\ prs[i] = except_peer
          THEN <<>>
          ELSE <<[to |-> prs[i], msg |-> msg]>>)
         \o broadcast_loop(prs, msg, except_peer, i + 1)

_broadcast(prs, msg, except_peer) == broadcast_loop(prs, msg, except_peer, 1)

_request_full_chain_from(peer) == _send([type |-> "REQ_CHAIN"], peer)

_startup_sync(prs) == IF prs # <<>> THEN _request_full_chain_from(prs[1]) ELSE <<>>

-----------------------------------------------------------------------------
(* Node.listen: one handler per kind of datagram.  Each result gives the    *)
(* node's state after the handler and the datagrams it sent.                *)

Same(ch, mp, prs, seen) ==
    [chain |-> ch, mempool |-> mp, peers |-> prs, seen |-> seen, sent |-> <<>>,
     ok |-> FALSE]

\* msg.startswith("PEERS"): entries are (ip, port) pairs already parsed
RECURSIVE new_peers_loop(_, _, _)
new_peers_loop(prs, entries, i) ==
    IF i > Len(entries)
    THEN <<>>
    ELSE (IF entries[i] # SelfAddr /\ ~(\E j \in DOMAIN prs : prs[j] = entries[i])
          THEN <<entries[i]>>
          ELSE <<>>)
         \o new_peers_loop(prs, entries, i + 1)

\* faulty variant: the chain is requested even when no address is new
on_peers_always_syncing(ch, mp, prs, seen, entries) ==
    LET new_peers == new_peers_loop(prs, entries, 1)
    IN  [chain |-> ch, mempool |-> mp, peers |-> prs \o new_peers,
         seen |-> seen, sent |-> _startup_sync(prs \o new_peers),
         ok |-> new_peers # <<>>]

on_peers(ch, mp, prs, seen, entries) ==
    LET new_peers == new_peers_loop(prs, entries, 1)
    IN  IF new_peers # <<>>
        THEN [chain |-> ch, mempool |-> mp, peers |-> prs \o new_peers,
              seen |-> seen, sent |-> _startup_sync(prs \o new_peers), ok |-> TRUE]
        ELSE Same(ch, mp, prs, seen)

\* faulty variant: the seen set is not consulted
on_new_transaction_without_dedup(ch, mp, prs, seen, tx, ttl, addr) ==
    IF "tx_id" \notin DOMAIN tx
    THEN Same(ch, mp, prs, seen)
    ELSE IF ~Truthy(tx.tx_id)
    THEN Same(ch, mp, prs, seen)
    ELSE LET r == add_transaction(mp, tx)
         IN  [chain |-> ch, mempool |-> r.mempool, peers |-> prs,
              seen |-> seen \cup {tx.tx_id},
              sent |-> IF ttl > 0
                       THEN _broadcast(prs, [type |-> "new_transaction", tx |-> tx,
                                             ttl |-> ttl - 1], addr)
                       ELSE <<>>,
              ok |-> r.added, forward |-> ttl > 0]

\* payload["type"] == "new_transaction"; a missing tx_id raises, which the
\* listener catches
on_new_transaction(ch, mp, prs, seen, tx, ttl, addr) ==
    IF "tx_id" \notin DOMAIN tx
    THEN Same(ch, mp, prs, seen)
    ELSE IF ~Truthy(tx.tx_id) \/ tx.tx_id \in seen
    THEN Same(ch, mp, prs, seen)
    ELSE LET r == add_transaction(mp, tx)
         IN  [chain |-> ch, mempool |-> r.mempool, peers |-> prs,
              seen |-> seen \cup {tx.tx_id},
              sent |-> IF ttl > 0
                       THEN _broadcast(prs, [type |-> "new_transaction", tx |-> tx,
                                             ttl |-> ttl - 1], addr)
                       ELSE <<>>,
              ok |-> r.added, forward |-> ttl > 0]

\* faulty variant: on failure the chain is requested from the first known peer
on_new_block_pulling_first_peer(ch, mp, prs, seen, block, addr) ==
    LET r == validate_and_add_block(ch, mp, block)
    IN  [chain |-> r.chain, mempool |-> r.mempool, peers |-> prs, seen |-> seen,
         sent |-> IF r.ret THEN <<>> ELSE _startup_sync(prs),
         ok |-> r.ret]

\* faulty variant: a block that does not fit is dropped, no chain is requested
on_new_block_without_pull(ch, mp, prs, seen, block, addr) ==
    LET r == validate_and_add_block(ch, mp, block)
    IN  [chain |-> r.chain, mempool |-> r.mempool, peers |-> prs, seen |-> seen,
         sent |-> <<>>, ok |-> r.ret]

\* payload["type"] == "new_block"
on_new_block(ch, mp, prs, seen, block, addr) ==
    LET r == validate_and_add_block(ch, mp, block)
    IN  [chain |-> r.chain, mempool |-> r.mempool, peers |-> prs, seen |-> seen,
         sent |-> IF r.ret THEN <<>> ELSE _request_full_chain_from(addr),
         ok |-> r.ret]

\* payload["type"] == "REQ_CHAIN"
on_req_chain(ch, mp, prs, seen, addr) ==
    [chain |-> ch, mempool |-> mp, peers |-> prs, seen |-> seen,
     sent |-> _send([type |-> "FULL_CHAIN", chain |-> ch], addr), ok |-> TRUE]

\* payload["type"] == "FULL_CHAIN"
on_full_chain(ch, mp, prs, seen, remote) ==
    LET r == replace_chain(ch, mp, remote)
    IN  [chain |-> r.chain, mempool |-> r.mempool, peers |-> prs, seen |-> seen,
         sent |-> <<>>, ok |-> r.ret]

-----------------------------------------------------------------------------
(* Node.listen: one pass of the loop over one datagram as it arrives.  A    *)
(* datagram is bytes that do not decode, a PEERS line, text that is not     *)
(* JSON, or a JSON payload.  The result adds alive: whether the loop goes   *)
(* on, or an exception left the thread.                                     *)

\* int(port): the decimal strings and the numbers they read as
PortOf == [s \in {"7000", "7001", "7002"} |->
              IF s = "7000" THEN SELF_PORT ELSE IF s = "7001" THEN 7001 ELSE 7002]

\* an entry of a PEERS line is kept as s.split(":") gives it: its parts
\* ip, port = s.split(":") needs two parts, int(port) a decimal string
parse_raises(parts) == Len(parts) # 2 \/ parts[2] \notin DOMAIN PortOf

parse_peer(parts) == <<parts[1], PortOf[parts[2]]>>

Alive(r, alive) ==
    [chain |-> r.chain, mempool |-> r.mempool, peers |-> r.peers,
     seen |-> r.seen, sent |-> r.sent, ok |-> r.ok, alive |-> alive]

\* the PEERS branch runs outside the try: what an entry raises leaves the
\* thread, before self.peers is touched
listen_peers(ch, mp, prs, seen, entries) ==
    IF \E i \in DOMAIN entries : parse_raises(entries[i])
    THEN Alive(Same(ch, mp, prs, seen), FALSE)
    ELSE Alive(on_peers(ch, mp, prs, seen,
                        [i \in DOMAIN entries |-> parse_peer(entries[i])]), TRUE)

\* the try block: a payload is a dict that may lack any key; a KeyError is
\* caught and the datagram ignored
on_payload(ch, mp, prs, seen, payload, addr) ==
    IF "type" \notin DOMAIN payload
    THEN Same(ch, mp, prs, seen)
    ELSE IF payload.type = "new_transaction"
    THEN IF "tx" \notin DOMAIN payload
         THEN Same(ch, mp, prs, seen)
         ELSE on_new_transaction(ch, mp, prs, seen, payload.tx,
                                 IF "ttl" \in DOMAIN payload
                                 THEN payload.ttl ELSE DEFAULT_TTL, addr)
    ELSE IF payload.type = "new_block"
    THEN IF "block" \notin DOMAIN payload
         THEN Same(ch, mp, prs, seen)
         ELSE on_new_block(ch, mp, prs, seen, payload.block, addr)
    ELSE IF payload.type = "REQ_CHAIN"
    THEN on_req_chain(ch, mp, prs, seen, addr)
    ELSE IF payload.type = "FULL_CHAIN"
    THEN IF "chain" \notin DOMAIN payload
         THEN Same(ch, mp, prs, seen)
         ELSE on_full_chain(ch, mp, prs, seen, payload.chain)
    ELSE Same(ch, mp, prs, seen)

listen_once(ch, mp, prs, seen, d, addr) ==
    IF d.kind = "bytes"
    THEN Alive(Same(ch, mp, prs, seen), FALSE)
    ELSE IF d.kind = "PEERS"
    THEN listen_peers(ch, mp, prs, seen, d.entries)
    ELSE IF d.kind = "text"
    THEN Alive(Same(ch, mp, prs, seen), TRUE)
    ELSE Alive(on_payload(ch, mp, prs, seen, d.payload, addr), TRUE)

-----------------------------------------------------------------------------
(* Node.repl: the commands that change state *)

\* MINE
cmd_mine(ch, mp, prs, seen, address, now) ==
    LET r == mine_block(ch, mp, address, now)
    IN  [chain |-> r.chain, mempool |-> r.mempool, peers |-> prs, seen |-> seen,
         sent |-> _broadcast(prs, [type |-> "new_block", block |-> r.block], NoPeer),
         ok |-> TRUE]

\* TX <receiver> <amount>, with uuid the fresh uuid4().hex
cmd_tx(ch, mp, prs, seen, address, uuid, receiver, amount) ==
    LET tx == [tx_id |-> uuid, sender |-> address, receiver |-> receiver,
               amount |-> amount, type |-> "regular"]
        r == add_transaction(mp, tx)
    IN  IF r.added
        THEN [chain |-> ch, mempool |-> r.mempool, peers |-> prs,
              seen |-> seen \cup {tx.tx_id},
              sent |-> _broadcast(prs, [type |-> "new_transaction", tx |-> tx,
                                        ttl |-> DEFAULT_TTL], NoPeer),
              ok |-> TRUE]
        ELSE Same(ch, mp, prs, seen)

-----------------------------------------------------------------------------
(* Inputs *)

ME == "me"
PEER == "peer"

A == <<"10.0.0.1", 7001>>
B == <<"10.0.0.2", 7002>>
Addrs == {A, B}

\* the peer lists the rendezvous server sends
PeerLists == {<<SelfAddr, A, B>>}

TxIds == {"t1", "t2"}

\* uuid4().hex of the node's own submissions
LocalIds == {"u1"}

AllIds == TxIds \cup LocalIds

RegularTx(id, amount) ==
    [tx_id |-> id, sender |-> "alice", receiver |-> "bob", amount |-> amount,
     type |-> "regular"]

Without(tx, field) == [f \in (DOMAIN tx) \ {field} |-> tx[f]]

\* transactions add_transaction accepts when their id is not pending
ValidTxs == {RegularTx(id, Num(10)) : id \in TxIds}

\* the same ids submitted again with another payload
ResubmittedTxs == {RegularTx(id, Num(20)) : id \in TxIds}

\* one submission per rejection rule of add_transaction, for every id
InvalidTxs ==
    UNION {LET tx == RegularTx(id, Num(10))
           IN  {[tx EXCEPT !.amount = Num(0)], [tx EXCEPT !.amount = Num(-5)],
                [tx EXCEPT !.amount = [kind |-> "text", val |-> 0]],
                [tx EXCEPT !.amount = [kind |-> "null", val |-> 0]],
                Without(tx, "amount"),
                [tx EXCEPT !.sender = ""], Without(tx, "sender"),
                [tx EXCEPT !.receiver = ""], Without(tx, "receiver"),
                [tx EXCEPT !.tx_id = ""], Without(tx, "tx_id"),
                [tx EXCEPT !.type = "other"], Without(tx, "type"),
                [tx EXCEPT !.type = "coinbase"]} : id \in TxIds}

Entry(tx) == [key |-> tx.tx_id, tx |-> tx]

\* what the remote peer has pending when it mines: t1, which gossip brought
\* it, until one of its blocks confirms it
PeerMempool(c) ==
    IF "t1" \in confirmed_ids(c) THEN <<>> ELSE <<Entry(RegularTx("t1", Num(10)))>>

\* the nodes of a network run on one host, each on its own port
NodeAddr(i) == <<"127.0.0.1", SELF_PORT + i>>

\* self.address of the node at addr
Wallet(addr) == <<"w1", "w2", "w3", "w4", "w5", "w6">>[addr[2] - SELF_PORT]

\* the pairs <<i, j>> of distinct numbers up to k
Pairs(k) == {p \in (1..k) \X (1..k) : p[1] # p[2]}

\* the peer lists of k nodes of which number i knows number j when <<i, j>>
\* is in links
Topology(k, links) ==
    [a \in {NodeAddr(i) : i \in 1..k} |->
        SelectSeq([i \in 1..k |-> NodeAddr(i)],
                  LAMBDA b : <<a[2] - SELF_PORT, b[2] - SELF_PORT>> \in links)]

\* three nodes each knowing the other two
Mesh == Topology(3, Pairs(3))

\* a path long enough for a ttl of DEFAULT_TTL to run out along it
LongPath == DEFAULT_TTL + 2

\* the peer topologies of the flood: the mesh, a line, a ring in which each
\* node knows only the next, a ring of four, a star
Topologies ==
    {Mesh,
     Topology(LongPath, {p \in Pairs(LongPath) : p[2] = p[1] + 1 \/ p[1] = p[2] + 1}),
     Topology(LongPath, {p \in Pairs(LongPath) : p[2] = (p[1] % LongPath) + 1}),
     Topology(4, {p \in Pairs(4) : p[2] = (p[1] % 4) + 1 \/ p[1] = (p[2] % 4) + 1}),
     Topology(4, {p \in Pairs(4) : p[1] = 1 \/ p[2] = 1})}

\* datetime.now(): the instants a block may be stamped with
Nows == {1}

\* a chain as a remote peer may send it: as built, cut, or altered in transit
Altered(c) ==
    {c, <<>>}
    \cup (IF Len(c) > 1
          THEN {Tail(c), SubSeq(c, 1, Len(c) - 1),
                [c EXCEPT ![Len(c)].nonce = @ + 1],
                [c EXCEPT ![2].timestamp = @ + 1]}
          ELSE {})

ChainInputs == Altered(peerChain) \cup {chain, Tail(chain)}

BlockInputs ==
    {peerChain[i] : i \in DOMAIN peerChain}
    \cup {[peerChain[Len(peerChain)] EXCEPT !.nonce = @ + 1]}
    \cup {[peerChain[Len(peerChain)] EXCEPT !.previous_hash = ZeroString]}

regular_txs(ch) ==
    UNION {{ch[i].transactions[j] :
               j \in {k \in DOMAIN ch[i].transactions :
                          ch[i].transactions[k].type = "regular"}} :
           i \in DOMAIN ch}

\* the transactions gossip may deliver: a peer's, malformed ones, and the
\* node's own coming back
GossipTxs ==
    {RegularTx("t1", Num(10)),
     [RegularTx("t1", Num(10)) EXCEPT !.type = "coinbase"],
     [RegularTx("t1", Num(10)) EXCEPT !.tx_id = ""],
     Without(RegularTx("t1", Num(10)), "tx_id")}
    \cup {mempool[i].tx : i \in DOMAIN mempool}
    \cup regular_txs(chain)

TtlInputs == {0, DEFAULT_TTL}

\* TX <receiver> <amount>: the amounts float(amount) yields
CmdAmounts == {Num(10), Num(-5)}

\* ids no transaction carries yet: a uuid4 is new
UsedIds == seen_tx_ids \cup mp_keys(mempool) \cup confirmed_ids(chain)

-----------------------------------------------------------------------------
(* The state after construction: Blockchain.__init__, Node.__init__ *)

InitSingle ==
    /\ chain = <<GENESIS>>
    /\ mempool = <<>>
    /\ peers = <<>>
    /\ seen_tx_ids = {}
    /\ sent = <<>>
    /\ last = [op |-> "init", ok |-> TRUE, removed |-> 0, note |-> "-"]
    /\ peerChain = <<GENESIS>>
    /\ mines = 0
    /\ inserted = [id \in AllIds |-> 0]
    /\ forwarded = [id \in AllIds |-> 0]
    /\ listening = TRUE
    /\ mining = [pc |-> "idle", accepted |-> {}]

\* the network as its nodes start: every chain [GENESIS], nothing pending,
\* nothing seen, nothing in flight
InitNet(peersOf) ==
    /\ nodes = [a \in DOMAIN peersOf |->
                  [chain |-> <<GENESIS>>, mempool |-> <<>>, peers |-> peersOf[a],
                   seen |-> {}]]
    /\ net = EmptyBag
    /\ commands = 0
    /\ relayed = [a \in DOMAIN peersOf |-> 0]

Init == InitSingle /\ InitNet(Mesh)

nodeVars == <<peers, seen_tx_ids, sent, inserted, forwarded>>

\* the last step: its name, its boolean outcome, how many pending entries it
\* removed, and a note on the input it was given or the branch it took
Did(op, ok, mp_after, note) ==
    last' = [op |-> op, ok |-> ok,
             removed |-> Cardinality(mp_keys(mempool) \ mp_keys(mp_after)),
             note |-> note]

-----------------------------------------------------------------------------
(* The remote peer: another Blockchain instance *)

PeerMine ==
    /\ Len(peerChain) < MaxChain
    /\ \E now \in Nows :
           peerChain' = mine_block(peerChain, PeerMempool(peerChain), PEER, now).chain
    /\ UNCHANGED <<chain, mempool, last, mines, nodeVars, auxVars>>

\* the peer receives the node's chain and replaces its own
PeerAdopt ==
    /\ replace_chain(peerChain, <<>>, chain).ret
    /\ peerChain' = replace_chain(peerChain, <<>>, chain).chain
    /\ UNCHANGED <<chain, mempool, last, mines, nodeVars, auxVars>>

-----------------------------------------------------------------------------
(* Direct calls of the Blockchain methods *)

CallMine ==
    /\ Len(chain) < MaxChain
    /\ \E now \in Nows :
           LET r == mine_block(chain, mempool, ME, now)
           IN  /\ chain' = r.chain
               /\ mempool' = r.mempool
               /\ Did("mine_block", TRUE, r.mempool, "-")
    /\ mines' = IF mines >= 0 THEN mines + 1 ELSE mines
    /\ UNCHANGED <<peerChain, nodeVars, auxVars>>

CallAddTransaction(txs) ==
    /\ \E tx \in txs :
           LET r == add_transaction(mempool, tx)
           IN  /\ mempool' = r.mempool
               /\ Did("add_transaction", r.added, r.mempool,
                      IF r.tx = tx THEN "returned submitted"
                      ELSE IF tx.type = "regular" THEN "returned stored"
                      ELSE "returned stored to a coinbase")
    /\ mines' = -1
    /\ UNCHANGED <<chain, peerChain, nodeVars, auxVars>>

CallValidateAndAddBlock ==
    /\ Len(chain) < MaxChain
    /\ \E block \in BlockInputs :
           LET r == validate_and_add_block(chain, mempool, block)
           IN  /\ chain' = r.chain
               /\ mempool' = r.mempool
               /\ Did("validate_and_add_block", r.ret, r.mempool, "-")
    /\ mines' = -1
    /\ UNCHANGED <<peerChain, nodeVars, auxVars>>

CallReplaceChain ==
    /\ \E new_chain \in ChainInputs :
           LET r == replace_chain(chain, mempool, new_chain)
           IN  /\ chain' = r.chain
               /\ mempool' = r.mempool
               /\ Did("replace_chain", r.ret, r.mempool,
                      IF Len(new_chain) = Len(chain) THEN "tie"
                      ELSE IF Len(new_chain) < Len(chain) THEN "shorter"
                      ELSE IF r.ret /\ ~(confirmed_ids(chain) \subseteq confirmed_ids(new_chain))
                      THEN "longer, drops a confirmed transaction"
                      ELSE "longer")
    /\ mines' = -1
    /\ UNCHANGED <<peerChain, nodeVars, auxVars>>

CallIsChainValid ==
    /\ \E given \in ChainInputs :
           Did("is_chain_valid", is_chain_valid(chain, given), mempool,
               IF given = <<>> THEN "empty" ELSE "non-empty")
    /\ mines' = -1
    /\ UNCHANGED <<chain, mempool, peerChain, nodeVars, auxVars>>

NextLedger ==
    \/ CallMine
    \/ CallAddTransaction(ValidTxs)
    \/ CallValidateAndAddBlock
    \/ CallReplaceChain
    \/ PeerMine
    \/ PeerAdopt

SpecLedger == Init /\ [][NextLedger]_vars

NextValid ==
    \/ CallIsChainValid
    \/ CallAddTransaction(ValidTxs)
    \/ CallMine
    \/ PeerMine
    \/ PeerAdopt

SpecValid == Init /\ [][NextValid]_vars

NextPool ==
    \/ CallAddTransaction(ValidTxs \cup ResubmittedTxs \cup InvalidTxs)
    \/ CallMine

SpecPool == Init /\ [][NextPool]_vars

\* one submission per kind of amount: numbers and numeric strings of either
\* sign, zero, text, null, no amount, NaN, the infinities
AmountTxs ==
    {RegularTx("t1", [kind |-> k, val |-> v]) :
        k \in {"num", "numstr"}, v \in {-5, 0, 10}}
    \cup {RegularTx("t1", [kind |-> k, val |-> 0]) :
             k \in {"text", "null"} \cup NonFinite}
    \cup {Without(RegularTx("t1", Num(10)), "amount")}

NextAmount ==
    \/ CallAddTransaction(AmountTxs \cup ValidTxs)
    \/ CallMine

SpecAmount == Init /\ [][NextAmount]_vars

-----------------------------------------------------------------------------
(* The node: the listener thread and the command loop *)

Apply(r) ==
    /\ chain' = r.chain
    /\ mempool' = r.mempool
    /\ peers' = r.peers
    /\ seen_tx_ids' = r.seen
    /\ sent' = r.sent

RecvPeers ==
    /\ listening
    /\ \E entries \in PeerLists :
           LET r == on_peers(chain, mempool, peers, seen_tx_ids, entries)
           IN  Apply(r) /\ Did("PEERS", r.ok, r.mempool, "-")
    /\ mines' = -1
    /\ UNCHANGED <<peerChain, inserted, forwarded, auxVars>>

RecvNewTransaction ==
    /\ listening
    /\ \E tx \in GossipTxs, ttl \in TtlInputs, addr \in Addrs :
           LET r == on_new_transaction(chain, mempool, peers, seen_tx_ids, tx, ttl, addr)
               fwd == "forward" \in DOMAIN r /\ r.forward
           IN  /\ Apply(r)
               /\ Did("new_transaction", r.ok, r.mempool,
                      IF "forward" \in DOMAIN r THEN "first" ELSE "dropped")
               /\ inserted' = IF r.ok THEN [inserted EXCEPT ![tx.tx_id] = @ + 1]
                              ELSE inserted
               /\ forwarded' = IF fwd THEN [forwarded EXCEPT ![tx.tx_id] = @ + 1]
                               ELSE forwarded
    /\ mines' = -1
    /\ UNCHANGED <<peerChain, auxVars>>

RecvNewBlock ==
    /\ listening
    /\ Len(chain) < MaxChain
    /\ \E block \in BlockInputs, addr \in Addrs :
           LET r == on_new_block(chain, mempool, peers, seen_tx_ids, block, addr)
           IN  Apply(r) /\ Did("new_block", r.ok, r.mempool, "-")
    /\ mines' = -1
    /\ UNCHANGED <<peerChain, inserted, forwarded, auxVars>>

RecvReqChain ==
    /\ listening
    /\ \E addr \in Addrs :
           LET r == on_req_chain(chain, mempool, peers, seen_tx_ids, addr)
           IN  Apply(r) /\ Did("REQ_CHAIN", r.ok, r.mempool, "-")
    /\ mines' = -1
    /\ UNCHANGED <<peerChain, inserted, forwarded, auxVars>>

RecvFullChain ==
    /\ listening
    /\ \E remote \in ChainInputs :
           LET r == on_full_chain(chain, mempool, peers, seen_tx_ids, remote)
           IN  Apply(r) /\ Did("FULL_CHAIN", r.ok, r.mempool, "-")
    /\ mines' = -1
    /\ UNCHANGED <<peerChain, inserted, forwarded, auxVars>>

CmdMine ==
    /\ Len(chain) < MaxChain
    /\ \E now \in Nows :
           LET r == cmd_mine(chain, mempool, peers, seen_tx_ids, ME, now)
           IN  Apply(r) /\ Did("MINE", r.ok, r.mempool, "-")
    /\ mines' = IF mines >= 0 THEN mines + 1 ELSE mines
    /\ UNCHANGED <<peerChain, inserted, forwarded, auxVars>>

CmdTx ==
    /\ \E uuid \in LocalIds \ UsedIds, amount \in CmdAmounts :
           LET r == cmd_tx(chain, mempool, peers, seen_tx_ids, ME, uuid, "bob", amount)
           IN  Apply(r) /\ Did("TX", r.ok, r.mempool, "-")
    /\ mines' = -1
    /\ UNCHANGED <<peerChain, inserted, forwarded, auxVars>>

Next ==
    \/ RecvPeers
    \/ RecvNewTransaction
    \/ RecvNewBlock
    \/ RecvReqChain
    \/ RecvFullChain
    \/ CmdMine
    \/ CmdTx
    \/ PeerMine
    \/ PeerAdopt

Spec == Init /\ [][Next]_vars

-----------------------------------------------------------------------------
(* The listener fed raw datagrams, beside the commands of the prompt *)

\* PEERS lines as split on blanks and colons: the relay's list, a list
\* naming one address twice, a list of the node alone, an empty list
WellFormedPeerLines ==
    {<<<<"127.0.0.1", "7000">>, <<"10.0.0.1", "7001">>, <<"10.0.0.2", "7002">>>>,
     <<<<"10.0.0.1", "7001">>, <<"10.0.0.1", "7001">>>>,
     <<<<"127.0.0.1", "7000">>>>,
     <<>>}

\* entries with no colon, a port that is no number, a colon too many
MalformedPeerLines ==
    {<<<<"10.0.0.1">>>>,
     <<<<"10.0.0.2", "7002">>, <<"10.0.0.1", "http">>>>,
     <<<<"fe80", "", "1", "7001">>>>}

\* the ttl a new_transaction payload carries, when it carries one
WireTtls == {-1, 0, 1}

TxPayloads ==
    UNION {{[type |-> "new_transaction", tx |-> tx],
            [type |-> "new_transaction", tx |-> Without(tx, "tx_id"), ttl |-> 1]}
           \cup {[type |-> "new_transaction", tx |-> tx, ttl |-> t] : t \in WireTtls}
           : tx \in {RegularTx(id, Num(10)) : id \in TxIds}}

\* the datagrams the socket may hand to the listener
Datagrams ==
    {[kind |-> "bytes"], [kind |-> "text"]}
    \cup {[kind |-> "PEERS", entries |-> e] :
             e \in WellFormedPeerLines \cup MalformedPeerLines}
    \cup {[kind |-> "json", payload |-> p] :
             p \in TxPayloads
                 \cup {[ttl |-> 1], [type |-> "new_transaction"],
                       [type |-> "new_block"], [type |-> "FULL_CHAIN"],
                       [type |-> "REQ_CHAIN"], [type |-> "other"],
                       [type |-> "new_block", block |-> chain[Len(chain)]],
                       [type |-> "FULL_CHAIN", chain |-> Tail(chain)]}}

RecvDatagram ==
    /\ listening
    /\ \E d \in Datagrams, addr \in Addrs :
         LET r == listen_once(chain, mempool, peers, seen_tx_ids, d, addr)
         IN  /\ Apply(r)
             /\ listening' = r.alive
             /\ Did("datagram", r.ok, r.mempool,
                    IF d.kind = "json"
                    THEN (IF "type" \in DOMAIN d.payload
                          THEN d.payload.type ELSE "json")
                    ELSE d.kind)
    /\ mines' = -1
    /\ UNCHANGED <<peerChain, inserted, forwarded, mining, netVars>>

NextListen ==
    \/ RecvDatagram
    \/ CmdMine
    \/ CmdTx

SpecListen == Init /\ [][NextListen]_vars

-----------------------------------------------------------------------------
(* MINE statement by statement, while the listener thread handles payloads. *)
(* The two threads share self.chain and self.mempool without a lock.  The   *)
(* nonce loop works on the local block only and is one step.                *)

\* the payloads that reach the listener during a mine
RacePayloads ==
    {[type |-> "new_transaction", tx |-> tx] : tx \in GossipTxs}
    \cup {[type |-> "new_block", block |-> b] : b \in BlockInputs}
    \cup {[type |-> "FULL_CHAIN", chain |-> c] : c \in ChainInputs}

\* one iteration of the listener; accepted collects the ids that entered the
\* mempool since the mine in progress took its snapshot of the mempool
ListenDuringMine ==
    /\ listening
    /\ \E p \in RacePayloads, addr \in Addrs :
         LET r == on_payload(chain, mempool, peers, seen_tx_ids, p, addr)
         IN  /\ Len(r.chain) <= MaxChain
             /\ Apply(r)
             /\ Did("listen", r.ok, r.mempool, p.type)
             /\ mining' = IF /\ mining.pc # "idle"
                             /\ p.type = "new_transaction"
                             /\ r.ok
                          THEN [mining EXCEPT !.accepted = @ \cup {p.tx.tx_id}]
                          ELSE mining
    /\ UNCHANGED <<peerChain, mines, inserted, forwarded, listening, netVars>>

MineStep(locals, op) ==
    /\ mining' = locals
    /\ last' = [op |-> op, ok |-> TRUE, removed |-> 0, note |-> "-"]
    /\ UNCHANGED <<chain, mempool, peers, seen_tx_ids, sent, peerChain, mines,
                   inserted, forwarded, listening, netVars>>

\* prev_hash = self.hash_block(self.get_latest_block())
MineReadTip ==
    /\ mining.pc = "idle"
    /\ Len(chain) < MaxChain
    /\ MineStep([pc |-> "coinbase", accepted |-> {},
                 prev_hash |-> hash_block(get_latest_block(chain))], "mine:59")

\* coinbase_tx = {... f"coinbase-{len(self.chain)+1}" ...}
MineCoinbase ==
    /\ mining.pc = "coinbase"
    /\ MineStep([pc |-> "txs", accepted |-> mining.accepted,
                 prev_hash |-> mining.prev_hash,
                 coinbase_tx |-> coinbase_tx(chain, ME)], "mine:61")

\* txs = [coinbase_tx] + list(self.mempool.values())
MineSnapshot ==
    /\ mining.pc = "txs"
    /\ MineStep([pc |-> "build", accepted |-> {},
                 prev_hash |-> mining.prev_hash,
                 txs |-> <<mining.coinbase_tx>> \o mp_values(mempool)], "mine:69")

\* block = self._build_block(nonce=1, ...), then the nonce loop
MineBuildAndSearch ==
    /\ mining.pc = "build"
    /\ \E now \in Nows :
         MineStep([pc |-> "append", accepted |-> mining.accepted,
                   block |-> NonceSearch(build_block(chain, 1, mining.prev_hash,
                                                     mining.txs, now))], "mine:71")

\* self.chain.append(block)
MineAppend ==
    /\ mining.pc = "append"
    /\ chain' = Append(chain, mining.block)
    /\ mining' = [mining EXCEPT !.pc = "cleanup"]
    /\ last' = [op |-> "mine:75", ok |-> TRUE, removed |-> 0, note |-> "-"]
    /\ UNCHANGED <<mempool, peers, seen_tx_ids, sent, peerChain, mines,
                   inserted, forwarded, listening, netVars>>

\* self._remove_confirmed_from_mempool(block["transactions"])
MineCleanup ==
    /\ mining.pc = "cleanup"
    /\ LET mp == _remove_confirmed_from_mempool(mempool, mining.block.transactions)
       IN  mempool' = mp /\ Did("mine:76", TRUE, mp, "-")
    /\ mining' = [mining EXCEPT !.pc = "broadcast"]
    /\ UNCHANGED <<chain, peers, seen_tx_ids, sent, peerChain, mines,
                   inserted, forwarded, listening, netVars>>

\* back in repl: self._broadcast({"type": "new_block", "block": block})
MineBroadcast ==
    /\ mining.pc = "broadcast"
    /\ sent' = _broadcast(peers, [type |-> "new_block", block |-> mining.block],
                          NoPeer)
    /\ mining' = [pc |-> "idle", accepted |-> {}]
    /\ last' = [op |-> "mine:143", ok |-> TRUE, removed |-> 0, note |-> "-"]
    /\ UNCHANGED <<chain, mempool, peers, seen_tx_ids, peerChain, mines,
                   inserted, forwarded, listening, netVars>>

NextRace ==
    \/ PeerMine
    \/ PeerAdopt
    \/ ListenDuringMine
    \/ MineReadTip
    \/ MineCoinbase
    \/ MineSnapshot
    \/ MineBuildAndSearch
    \/ MineAppend
    \/ MineCleanup
    \/ MineBroadcast

SpecRace == Init /\ [][NextRace]_vars

-----------------------------------------------------------------------------
(* A network of nodes.  Every command and every handler is atomic; what a   *)
(* node sends stays in flight until the listener of its destination takes   *)
(* it, in any order.                                                        *)

singleVars == <<chain, mempool, peers, seen_tx_ids, sent, last, peerChain, mines,
                inserted, forwarded, listening, mining>>

\* the datagrams a node hands to its socket, as a bag
RECURSIVE InFlight(_, _, _)
InFlight(src, msgs, i) ==
    IF i > Len(msgs)
    THEN EmptyBag
    ELSE SetToBag({[src |-> src, dst |-> msgs[i].to, msg |-> msgs[i].msg]})
         (+) InFlight(src, msgs, i + 1)

After(a, r) ==
    [nodes EXCEPT ![a] = [chain |-> r.chain, mempool |-> r.mempool,
                          peers |-> r.peers, seen |-> r.seen]]

\* the listener of d.dst handles the datagram d
NetDeliver ==
    /\ \E d \in BagToSet(net) :
         LET n == nodes[d.dst]
             r == on_payload(n.chain, n.mempool, n.peers, n.seen, d.msg, d.src)
         IN  /\ nodes' = After(d.dst, r)
             /\ net' = (net (-) SetToBag({d})) (+) InFlight(d.dst, r.sent, 1)
             /\ relayed' = IF "forward" \in DOMAIN r
                           THEN (IF r.forward
                                 THEN [relayed EXCEPT ![d.dst] = @ + 1]
                                 ELSE relayed)
                           ELSE relayed
    /\ UNCHANGED <<commands, singleVars>>

\* MINE at the prompt of the node a
NetMine ==
    /\ commands < MaxMines
    /\ \E a \in DOMAIN nodes, now \in Nows :
         LET n == nodes[a]
             r == cmd_mine(n.chain, n.mempool, n.peers, n.seen, Wallet(a), now)
         IN  /\ nodes' = After(a, r)
             /\ net' = net (+) InFlight(a, r.sent, 1)
    /\ commands' = commands + 1
    /\ UNCHANGED <<relayed, singleVars>>

\* TX bob 10 at the prompt of the node a: the one transaction of the flood
NetSubmit ==
    /\ commands = 0
    /\ \E a \in DOMAIN nodes :
         LET n == nodes[a]
             r == cmd_tx(n.chain, n.mempool, n.peers, n.seen, Wallet(a), "u1",
                         "bob", Num(10))
         IN  /\ nodes' = After(a, r)
             /\ net' = net (+) InFlight(a, r.sent, 1)
             /\ relayed' = [relayed EXCEPT ![a] = @ + 1]
    /\ commands' = commands + 1
    /\ UNCHANGED singleVars

NextSync ==
    \/ NetMine
    \/ NetDeliver

\* the listener loops for ever: a datagram in flight is handled in the end
SpecSync == Init /\ [][NextSync]_vars /\ WF_vars(NetDeliver)

InitFlood == InitSingle /\ \E peersOf \in Topologies : InitNet(peersOf)

NextFlood ==
    \/ NetSubmit
    \/ NetDeliver

SpecFlood == InitFlood /\ [][NextFlood]_vars /\ WF_vars(NetDeliver)

-----------------------------------------------------------------------------
(* The ledger offered blocks and chains of a sender that numbers its blocks *)
(* in its own way: the proof of work and the link to the tip are in order,  *)
(* the index is whatever the sender wrote.                                  *)

\* the index a sender may write in a block that extends the chain c
WrittenIndexes(c) == {1, Len(c), Len(c) + 1, Len(c) + 2}

\* the blocks a sender may build on the tip of c
ExtendingBlocks(c) ==
    {NonceSearch([index |-> i, timestamp |-> now, nonce |-> 1,
                  previous_hash |-> hash_block(get_latest_block(c)),
                  transactions |-> <<coinbase_tx(c, PEER)>>]) :
        i \in WrittenIndexes(c), now \in Nows}

CallOfferBlock ==
    /\ Len(chain) < MaxChain
    /\ \E block \in ExtendingBlocks(chain) :
           LET r == validate_and_add_block(chain, mempool, block)
           IN  /\ chain' = r.chain
               /\ mempool' = r.mempool
               /\ Did("validate_and_add_block", r.ret, r.mempool,
                      IF block.index = Len(chain) + 1 THEN "-" ELSE "index")
    /\ mines' = -1
    /\ UNCHANGED <<peerChain, nodeVars, auxVars>>

CallOfferChain ==
    /\ Len(chain) < MaxChain
    /\ \E block \in ExtendingBlocks(chain) :
           LET r == replace_chain(chain, mempool, Append(chain, block))
           IN  /\ chain' = r.chain
               /\ mempool' = r.mempool
               /\ Did("replace_chain", r.ret, r.mempool,
                      IF block.index = Len(chain) + 1 THEN "-" ELSE "index")
    /\ mines' = -1
    /\ UNCHANGED <<peerChain, nodeVars, auxVars>>

NextOffer ==
    \/ CallMine
    \/ CallAddTransaction(ValidTxs)
    \/ CallOfferBlock
    \/ CallOfferChain

SpecOffer == Init /\ [][NextOffer]_vars

-----------------------------------------------------------------------------
(* The properties *)

\* validateChain as the specification states it: the chain is non-empty, it
\* starts with Genesis, every block points to the hash of its predecessor and
\* every block after Genesis carries the proof-of-work prefix
WellFormedChain(c) ==
    /\ c # <<>>
    /\ c[1] = GENESIS
    /\ \A i \in 2..Len(c) :
          /\ c[i].previous_hash = hash_block(c[i - 1])
          /\ StartsWith0000(hash_block(c[i]))

\* the ids a block confirms as regular transactions
RegularIdsOfBlock(block) ==
    {id \in AllIds \cup {""} :
        \E j \in DOMAIN block.transactions :
            /\ block.transactions[j].type = "regular"
            /\ block.transactions[j].tx_id = id}

RegularIdsOfChain(c) == UNION {RegularIdsOfBlock(c[i]) : i \in DOMAIN c}

\* mp_after is mp_before without the entries whose key is in ids: nothing
\* else is removed, nothing is added or changed, the order is kept
IsWithout(mp_after, mp_before, ids) ==
    /\ mp_keys(mp_after) = mp_keys(mp_before) \ ids
    /\ \A i \in DOMAIN mp_after : \E j \in DOMAIN mp_before : mp_after[i] = mp_before[j]
    /\ \A i, j \in DOMAIN mp_after :
          i < j => \E k, l \in DOMAIN mp_before :
                      k < l /\ mp_before[k] = mp_after[i] /\ mp_before[l] = mp_after[j]

\* C1: from a fresh ledger, after n calls of mine_block and no other call, the
\* chain has n+1 blocks, every block after Genesis points to the hash of its
\* predecessor and its hash carries the proof-of-work prefix.
C1_MineBuildsLinkedChain ==
    mines >= 0 =>
        /\ Len(chain) = mines + 1
        /\ chain[1] = GENESIS
        /\ \A i \in 2..Len(chain) :
              /\ chain[i].previous_hash = hash_block(chain[i - 1])
              /\ StartsWith0000(hash_block(chain[i]))

C1_Witness == mines = 2 /\ Len(chain) = 3 /\ last.op = "mine_block"

\* C2: replace_chain returns true only for a candidate that is well formed and
\* strictly longer than the chain; for every other candidate (ill formed,
\* shorter, of equal length) it returns false and leaves chain and mempool as
\* they were.
C2_ReplaceOnlyValidLonger ==
    \A c \in ChainInputs :
        LET r == replace_chain(chain, mempool, c)
            adoptable == WellFormedChain(c) /\ Len(c) > Len(chain)
        IN  /\ r.ret => adoptable
            /\ ~adoptable => (~r.ret /\ r.chain = chain /\ r.mempool = mempool)

\* a well-formed chain of the same length as the node's, and another one, was
\* offered and refused
C2_Witness ==
    /\ last.op = "replace_chain" /\ ~last.ok /\ last.note = "tie"
    /\ WellFormedChain(peerChain)
    /\ Len(peerChain) = Len(chain) /\ peerChain # chain
    /\ mempool # <<>>

\* C3: validate_and_add_block succeeds iff the block points to the hash of the
\* tip and carries the proof-of-work prefix; then the chain is the old chain
\* with that block appended and the mempool has lost exactly the entries the
\* block confirms as regular transactions; otherwise nothing changes.
C3_ValidateAndAppend ==
    \A block \in BlockInputs :
        LET r == validate_and_add_block(chain, mempool, block)
            fits == /\ block.previous_hash = hash_block(chain[Len(chain)])
                    /\ StartsWith0000(hash_block(block))
        IN  /\ r.ret = fits
            /\ r.ret => /\ r.chain = Append(chain, block)
                        /\ IsWithout(r.mempool, mempool, RegularIdsOfBlock(block))
            /\ ~r.ret => (r.chain = chain /\ r.mempool = mempool)

\* a received block was appended, one pending entry was confirmed by it and
\* another stays pending
C3_Witness ==
    /\ last.op = "validate_and_add_block" /\ last.ok
    /\ last.removed = 1
    /\ mempool # <<>>

\* C4: every invalid submission is answered added=false with the submitted
\* transaction itself and leaves the mempool unchanged, also when its tx_id is
\* the id of a pending transaction.
C4_InvalidReturnsSubmitted ==
    \A tx \in InvalidTxs :
        LET r == add_transaction(mempool, tx)
        IN  ~r.added /\ r.tx = tx /\ r.mempool = mempool

\* C5: a valid regular submission whose tx_id is pending is answered
\* added=false with the stored entry, and the mempool is unchanged.
C5_DuplicateReturnsStored ==
    \A tx \in ValidTxs \cup ResubmittedTxs :
        mp_has(mempool, tx.tx_id) =>
            LET r == add_transaction(mempool, tx)
            IN  /\ ~r.added
                /\ \E i \in DOMAIN mempool :
                      mempool[i].key = tx.tx_id /\ r.tx = mempool[i].tx
                /\ r.mempool = mempool

\* a pending id was submitted again with another payload and the stored entry
\* came back
C5_Witness ==
    /\ last.op = "add_transaction" /\ ~last.ok /\ last.note = "returned stored"
    /\ Len(mempool) = 2

\* C6: when replace_chain adopts a candidate, the mempool is the prior mempool
\* without exactly the entries whose tx_id is a regular transaction of the
\* adopted chain.
C6_AdoptionPrunesMempool ==
    \A c \in ChainInputs :
        LET r == replace_chain(chain, mempool, c)
        IN  r.ret => /\ r.chain = c
                     /\ IsWithout(r.mempool, mempool, RegularIdsOfChain(c))

\* a chain was adopted that lacks a transaction the discarded chain had
\* confirmed; a pending entry was confirmed by it and another stays pending
C6_Witness ==
    /\ last.op = "replace_chain" /\ last.ok
    /\ last.note = "longer, drops a confirmed transaction"
    /\ last.removed = 1
    /\ mempool # <<>>

\* C7: the mempool of a node never holds a coinbase transaction, and every
\* entry is stored under its own tx_id.
C7_NoCoinbasePending ==
    \A i \in DOMAIN mempool :
        /\ mempool[i].tx.type # "coinbase"
        /\ mempool[i].key = mempool[i].tx.tx_id

\* a coinbase transaction came by gossip and was refused, on a node that has
\* mined and has a pending transaction
C7_Witness ==
    /\ last.op = "new_transaction" /\ ~last.ok /\ last.note = "first"
    /\ "t1" \in seen_tx_ids
    /\ ~mp_has(mempool, "t1") /\ "t1" \notin confirmed_ids(chain)
    /\ mempool # <<>>
    /\ Len(chain) > 1

\* C8: of the deliveries of one tx_id at most one inserts it in the mempool
\* and at most one makes the node forward it; a delivery of an id already
\* seen (delivered before, or submitted locally) changes nothing and sends
\* nothing.
C8_GossipDedup ==
    /\ \A id \in AllIds : inserted[id] <= 1 /\ forwarded[id] <= 1
    /\ \A tx \in GossipTxs, ttl \in TtlInputs, addr \in Addrs :
          ("tx_id" \in DOMAIN tx /\ tx.tx_id \in seen_tx_ids) =>
              LET r == on_new_transaction(chain, mempool, peers, seen_tx_ids,
                                          tx, ttl, addr)
              IN  /\ r.chain = chain /\ r.mempool = mempool
                  /\ r.seen = seen_tx_ids /\ r.sent = <<>>

\* an id that was inserted and forwarded once was delivered again and dropped
C8_Witness ==
    /\ last.op = "new_transaction" /\ last.note = "dropped"
    /\ inserted["t1"] = 1 /\ forwarded["t1"] = 1
    /\ "u1" \in seen_tx_ids
    /\ peers # <<>>

\* C9: is_chain_valid returns true iff the chain is non-empty, starts with
\* Genesis and every later block points to the hash of its predecessor and
\* carries the proof-of-work prefix; in particular it is false for the empty
\* chain.
C9_ValidIffWellFormed ==
    \A c \in ChainInputs : is_chain_valid(chain, c) = WellFormedChain(c)

\* C10: on a new_block from addr either the block is appended and nothing is
\* sent, or chain and mempool are unchanged and exactly one REQ_CHAIN is sent,
\* to addr.
C10_BlockAppendedOrPulled ==
    \A block \in BlockInputs, addr \in Addrs :
        LET r == on_new_block(chain, mempool, peers, seen_tx_ids, block, addr)
            v == validate_and_add_block(chain, mempool, block).ret
        IN  \/ /\ v
               /\ r.chain = Append(chain, block)
               /\ r.sent = <<>>
            \/ /\ ~v
               /\ r.chain = chain /\ r.mempool = mempool
               /\ r.sent = <<[to |-> addr, msg |-> [type |-> "REQ_CHAIN"]]>>

\* a block was refused by a node that knows two peers, and one datagram left
C10_Witness ==
    /\ last.op = "new_block" /\ ~last.ok
    /\ Len(peers) = 2
    /\ Len(sent) = 1 /\ sent[1].msg.type = "REQ_CHAIN"

ToSet(seq) == {seq[i] : i \in DOMAIN seq}

\* the number of datagrams of msgs addressed to peer
SentTo(msgs, peer) == Cardinality({i \in DOMAIN msgs : msgs[i].to = peer})

\* C11: no datagram makes the listener stop: whatever arrives (bytes that do
\* not decode, text that is not JSON, JSON without the expected fields, a
\* PEERS line with malformed host:port entries), the listener thread is still
\* running afterwards.
C11_ListenerNeverStops == listening

\* C12: a PEERS line adds to the peer set exactly the listed addresses that
\* are neither the node's own nor already known.  With none of them new the
\* peer list is unchanged and nothing is sent; with at least one new exactly
\* one REQ_CHAIN is sent, to the first entry of the node's peer list.
C12_PeersMerge ==
    \A e \in WellFormedPeerLines, addr \in Addrs :
        LET r == listen_once(chain, mempool, peers, seen_tx_ids,
                             [kind |-> "PEERS", entries |-> e], addr)
            listed == {parse_peer(e[i]) : i \in DOMAIN e}
            new == listed \ ({SelfAddr} \cup ToSet(peers))
        IN  /\ r.alive
            /\ ToSet(r.peers) = ToSet(peers) \cup new
            /\ SubSeq(r.peers, 1, Len(peers)) = peers
            /\ r.chain = chain /\ r.mempool = mempool /\ r.seen = seen_tx_ids
            /\ new = {} => r.peers = peers /\ r.sent = <<>>
            /\ new # {} =>
                  r.sent = <<[to |-> r.peers[1], msg |-> [type |-> "REQ_CHAIN"]]>>

\* a PEERS line naming only known addresses arrived at a node that knows two
\* peers: nothing was added and nothing was sent
C12_Witness ==
    /\ last.op = "datagram" /\ last.note = "PEERS" /\ ~last.ok
    /\ listening
    /\ Len(peers) = 2 /\ sent = <<>>

\* C13: on the first receipt of a tx_id, with ttl t from sender S, the id is
\* marked seen and add_transaction is attempted whatever t is and whatever it
\* returns; if t > 0 one new_transaction with ttl t - 1 goes to every known
\* peer other than S and none to S; if t <= 0 nothing is sent.
C13_FirstReceiptForwards ==
    \A p \in TxPayloads, S \in Addrs :
        ("tx_id" \in DOMAIN p.tx /\ p.tx.tx_id \notin seen_tx_ids) =>
            LET t == IF "ttl" \in DOMAIN p THEN p.ttl ELSE DEFAULT_TTL
                r == listen_once(chain, mempool, peers, seen_tx_ids,
                                 [kind |-> "json", payload |-> p], S)
            IN  /\ r.alive
                /\ r.seen = seen_tx_ids \cup {p.tx.tx_id}
                /\ r.mempool = add_transaction(mempool, p.tx).mempool
                /\ r.chain = chain /\ r.peers = peers
                /\ t <= 0 => r.sent = <<>>
                /\ t > 0 =>
                      /\ \A i \in DOMAIN r.sent :
                            /\ r.sent[i].to \in ToSet(peers) \ {S}
                            /\ r.sent[i].msg = [type |-> "new_transaction",
                                                tx |-> p.tx, ttl |-> t - 1]
                      /\ \A q \in ToSet(peers) \ {S} : SentTo(r.sent, q) = 1

\* C14: with the listener and a mine in progress writing the ledger without
\* a lock, the chain is still a valid chain: Genesis first, every later block
\* carrying the proof-of-work prefix and the hash of the block before it.  A
\* block whose previous_hash was computed before the listener changed the
\* tip is never appended.
C14_ChainValidUnderRace ==
    /\ WellFormedChain(chain)
    /\ mining.pc = "cleanup" =>
          mining.block.previous_hash = hash_block(chain[Len(chain) - 1])

\* the places <<block, position>> of c where id stands as a regular transaction
RegularPlaces(c, id) ==
    {<<i, j>> \in UNION {{<<i, j>> : j \in DOMAIN c[i].transactions} : i \in DOMAIN c} :
        /\ c[i].transactions[j].type = "regular"
        /\ c[i].transactions[j].tx_id = id}

\* C15: no tx_id stands as a regular transaction in more than one place of
\* the node's chain: a confirmed transaction is never accepted into the
\* mempool and mined again.
C15_NoDoubleConfirmation ==
    \A id \in AllIds : Cardinality(RegularPlaces(chain, id)) <= 1

\* the pending id k leaves the mempool in this step because a block or a
\* chain holding it as a regular transaction is appended or adopted
LeavesConfirmed(k) ==
    \/ /\ last'.op = "mine:76"
       /\ k \in RegularIdsOfBlock(mining.block)
    \/ /\ last'.op = "listen" /\ last'.note = "new_block" /\ last'.ok
       /\ Len(chain') = Len(chain) + 1
       /\ k \in RegularIdsOfBlock(chain'[Len(chain')])
    \/ /\ last'.op = "listen" /\ last'.note = "FULL_CHAIN" /\ last'.ok
       /\ k \in RegularIdsOfChain(chain')

\* C16: a pending transaction leaves the mempool only in a step that appends
\* a block (mined or received) or adopts a chain holding its tx_id as a
\* regular transaction.  A transaction accepted while a nonce search is in
\* progress, and so not in the block being mined, is still pending when that
\* mine completes.
C16_PendingLeavesOnlyConfirmed ==
    [][/\ \A k \in mp_keys(mempool) \ mp_keys(mempool') : LeavesConfirmed(k)
       /\ last'.op = "mine:76" =>
             \A k \in mining.accepted \cap mp_keys(mempool) :
                 k \notin RegularIdsOfBlock(mining.block) /\ mp_has(mempool', k)
      ]_vars

\* a mine has completed whose nonce search saw a transaction accepted, and
\* the transaction is pending still
C16_Witness ==
    /\ last.op = "mine:76"
    /\ mining.pc = "broadcast"
    /\ mining.accepted # {}
    /\ \A k \in mining.accepted : mp_has(mempool, k)
    /\ Len(chain) > 1

\* C17: the block at the 1-based position i of the node's chain has index i,
\* after any sequence of mining, accepted received blocks and adopted chains.
C17_IndexIsPosition == \A i \in DOMAIN chain : chain[i].index = i

\* C18: no operation of the node (MINE, TX, any listener handler) makes the
\* chain shorter, and the chain is never empty.
C18_LengthNeverDecreases ==
    [][Len(chain) >= 1 /\ Len(chain') >= Len(chain)]_vars

\* a chain was offered to a node whose own chain has grown, and was refused
C18_Witness ==
    /\ last.op = "FULL_CHAIN" /\ ~last.ok
    /\ Len(chain) = MaxChain

\* every node of the network holds a chain of the same length
SameLength ==
    \A a, b \in DOMAIN nodes : Len(nodes[a].chain) = Len(nodes[b].chain)

\* C19: in a network where every node knows every other, all start from
\* Genesis, operations are atomic, every mined block is broadcast and every
\* datagram is delivered in the end: once mining has stopped, all nodes come
\* to hold chains of one length, the greatest any node holds, and keep them.
C19_CatchUp == <>[]SameLength

\* mining has stopped, nothing is in flight, every node holds a chain with
\* all the blocks mined, and one holds a chain mined by another node alone
C19_Witness ==
    /\ commands = MaxMines
    /\ net = EmptyBag
    /\ \A a \in DOMAIN nodes : Len(nodes[a].chain) = MaxMines + 1
    /\ \E a, b \in DOMAIN nodes :
          /\ a # b
          /\ \A i \in DOMAIN nodes[a].chain :
                i > 1 => nodes[a].chain[i].transactions[1].receiver = Wallet(b)

\* C20: the flood of one locally submitted transaction ends: every
\* new_transaction in flight carries a ttl from 0 to 4, no node broadcasts
\* the transaction more than once, and with every datagram delivered in the
\* end there comes a point from which none is in flight and none is sent.
C20_FloodEnds ==
    /\ [](\A d \in BagToSet(net) :
            d.msg.type = "new_transaction" => d.msg.ttl \in 0..DEFAULT_TTL)
    /\ [](\A a \in DOMAIN nodes : relayed[a] <= 1)
    /\ <>[](net = EmptyBag)

\* the flood is over: the ttl ran out at a node that saw the transaction and
\* did not pass it on
C20_Witness ==
    /\ commands = 1
    /\ net = EmptyBag
    /\ \E a \in DOMAIN nodes : nodes[a].seen = {"u1"} /\ relayed[a] = 0

\* the amount of tx is a finite positive number, or a string that writes one
FinitePositive(tx) ==
    /\ "amount" \in DOMAIN tx
    /\ tx.amount.kind \in {"num", "numstr"}
    /\ tx.amount.val > 0

\* C21: add_transaction rejects every submission whose amount is not a
\* finite positive number: zero, negative, non-numeric, not-a-number and
\* infinite amounts give added = false and are not inserted, so no pending
\* transaction has such an amount.
C21_AmountFinitePositive ==
    /\ \A tx \in AmountTxs :
          ~FinitePositive(tx) =>
              LET r == add_transaction(mempool, tx)
              IN  ~r.added /\ r.mempool = mempool
    /\ \A i \in DOMAIN mempool : FinitePositive(mempool[i].tx)

====
